---- MODULE Spec2Model ----
(***************************************************************************)
(* Model of the accounts application: the register, login and me views,   *)
(* the serializers that validate their payloads and the User / Profile    *)
(* tables behind them.                                                     *)
(*                                                                         *)
(* Text is a sequence of one-character strings, so that strip(), lower()  *)
(* and the regular expressions of the serializers are computed.  An       *)
(* optional payload field is a set: {} when the key is absent, {v} when   *)
(* it carries v.                                                           *)
(***************************************************************************)
EXTENDS Integers, Sequences, FiniteSets, TLC

VARIABLES users, profiles, nextId, now, out, req

vars == <<users, profiles, nextId, now, out, req>>

(***************************************************************************)
(* Bounds of the model.                                                    *)
(***************************************************************************)
\* rows the sequential views may insert before register is no longer taken
MaxId == 2
\* ticks of the clock
MaxTime == 3
\* register requests in flight together in the interleaved specification
NReq == 2

(***************************************************************************)
(* Text helpers: str.strip(), str.lower(), re.match, re.sub.               *)
(***************************************************************************)
Digits == {"0", "1", "2", "3", "4", "5", "6", "7", "8", "9"}
LowerLetters == {"a", "b", "c", "l", "p", "s", "w", "x", "y", "z"}
UpperLetters == {"A", "B", "X"}

LowerChar(c) ==
    CASE c = "A" -> "a"
      [] c = "B" -> "b"
      [] c = "X" -> "x"
      [] OTHER -> c

Lower(s) == [i \in 1..Len(s) |-> LowerChar(s[i])]

MinOf(S) == CHOOSE x \in S : \A y \in S : x <= y
MaxOf(S) == CHOOSE x \in S : \A y \in S : x >= y

Trimmed(s, idx) == IF idx = {} THEN <<>> ELSE SubSeq(s, MinOf(idx), MaxOf(idx))

Strip(s) == Trimmed(s, {i \in 1..Len(s) : s[i] # " "})

AllIn(s, C) == \A i \in 1..Len(s) : s[i] \in C

IsDigit(c) == c \in Digits

\* re.sub(r'[^\d]', '', s)
DigitsOnly(s) == SelectSeq(s, IsDigit)

\* re.match(r'^[\d\s\-\(\)\+]+$', s)
PhonePattern(s) == Len(s) > 0 /\ AllIn(s, Digits \cup {" ", "-", "(", ")", "+"})

\* re.match(r'^[a-zA-Z0-9_]+$', s)
UsernamePattern(s) ==
    Len(s) > 0 /\ AllIn(s, LowerLetters \cup UpperLetters \cup Digits \cup {"_"})

Absent == {}
Some(v) == {v}
Get(o) == CHOOSE v \in o : TRUE

(***************************************************************************)
(* The text values requests carry.                                         *)
(***************************************************************************)
EmA == <<"a", "@", "x", ".", "y">>
EmAUpper == <<"A", "@", "X", ".", "y">>
EmB == <<"b", "@", "x", ".", "y">>
EmBad == <<"a", "x", ".", "y">>
UnA == <<"a", "b", "c">>
UnAUpper == <<"A", "B", "c">>
UnB == <<"x", "y", "z">>
UnShort == <<"a", "b">>
UnBadChar == <<"a", "-", "c">>
PwA == <<"p", "a", "s", "s", "w", "0", "r", "1">>
PwB == <<"p", "a", "s", "s", "w", "0", "r", "2">>
PwShort == <<"p", "w", "1">>
PhA == <<"5", "5", "5", "1", "2", "3", "4", "5", "6", "7">>
PhADash == <<"5", "5", "5", "-", "1", "2", "3", "-", "4", "5", "6", "7">>
PhAPad == <<" ", "5", "5", "5", "1", "2", "3", "4", "5", "6", "7">>
PhB == <<"9", "8", "7", "6", "5", "4", "3", "2", "1", "0">>
PhShort == <<"5", "5", "5", "-", "1", "2", "3", "4">>
PhBadChar == <<"5", "5", "5", "x", "1", "2", "3", "4", "5", "6", "7">>
PhLong == <<"+", "1", " ", "(", "5", "5", "5", ")", " ", "1", "2", "3", "-", "4", "5", "6", "7">>

(***************************************************************************)
(* Field results: a validator either returns the cleaned value or raises   *)
(* ValidationError with a message.                                         *)
(***************************************************************************)
Ok(v) == [error |-> "", value |-> v]
Err(m) == [error |-> m, value |-> <<>>]

\* models.EmailField -> serializers.EmailField: Django's EmailValidator
\* (one "@", a local part, a dotted domain, no blanks)
Positions(s, c) == {i \in 1..Len(s) : s[i] = c}

DomainFormat(dom, dots) ==
    /\ AllIn(dom, LowerLetters \cup UpperLetters \cup Digits \cup {"."})
    /\ dots # {}
    /\ \A i \in dots : i > 1 /\ i < Len(dom)

AddressFormat(s, at) ==
    /\ at > 1
    /\ AllIn(SubSeq(s, 1, at - 1), LowerLetters \cup UpperLetters \cup Digits)
    /\ DomainFormat(SubSeq(s, at + 1, Len(s)), {i \in 1..(Len(s) - at) : s[at + i] = "."})

EmailFormat(s) ==
    /\ Cardinality(Positions(s, "@")) = 1
    /\ AddressFormat(s, MinOf(Positions(s, "@")))

\* BaseUserManager.normalize_email: lowercase what follows the last "@"
LowerFrom(email, at) == SubSeq(email, 1, at) \o Lower(SubSeq(email, at + 1, Len(email)))

normalize_email(email) ==
    IF Positions(email, "@") = {} THEN email
    ELSE LowerFrom(email, MaxOf(Positions(email, "@")))

\* AbstractBaseUser.set_password / check_password
make_password(raw) == [hashed |-> raw]
check_password(raw, encoded) == encoded = make_password(raw)

EmailFree(email, us) ==
    IF \E u \in us : u.email = email
    THEN Err("An account with this email already exists.")
    ELSE Ok(email)

\* validate_email without value.lower()
validate_email_case_sensitive(value, us) == EmailFree(Strip(value), us)

\* UserSerializer.validate_email
validate_email(value, us) == EmailFree(Strip(Lower(value)), us)

\* The email field: CharField trimming, blank and format checks, the
\* UniqueValidator of the unique model column, then validate_email.
EmailClean(v, us) ==
    IF v = <<>> THEN Err("This field may not be blank.")
    ELSE IF ~EmailFormat(v) THEN Err("Enter a valid email address.")
    ELSE IF \E u \in us : u.email = v THEN Err("user with this email already exists.")
    ELSE validate_email(v, us)

EmailField(raw, us) == EmailClean(Strip(raw), us)

MinUsernameLength == 3

\* UserSerializer.validate_username
UsernameRules(username, us) ==
    IF Len(username) < MinUsernameLength
    THEN Err("Username must be at least 3 characters long.")
    ELSE IF ~UsernamePattern(username)
    THEN Err("Username can only contain letters, numbers, and underscores.")
    ELSE IF \E u \in us : u.username = username
    THEN Err("This username is already taken.")
    ELSE Ok(username)

validate_username(value, us) == UsernameRules(Strip(value), us)

UsernameClean(v, us) ==
    IF v = <<>> THEN Err("This field may not be blank.")
    ELSE IF \E u \in us : u.username = v THEN Err("user with this username already exists.")
    ELSE validate_username(v, us)

UsernameField(raw, us) == UsernameClean(Strip(raw), us)

MinPasswordLength == 8

\* password = CharField(write_only=True, min_length=8)
PasswordClean(v) ==
    IF v = <<>> THEN Err("This field may not be blank.")
    ELSE IF Len(v) < MinPasswordLength
    THEN Err("Ensure this field has at least 8 characters.")
    ELSE Ok(v)

PasswordField(raw) == PasswordClean(Strip(raw))

\* password_confirm = CharField(write_only=True, required=False)
PasswordConfirmField(opt) ==
    IF opt = Absent THEN Ok(<<>>)
    ELSE IF Strip(Get(opt)) = <<>> THEN Err("This field may not be blank.")
    ELSE Ok(Strip(Get(opt)))

MinPhoneDigits == 10
PhoneMaxLength == 15

\* ProfileSerializer.validate_phone_number
PhoneRules(cleaned_number, ps) ==
    IF ~PhonePattern(cleaned_number)
    THEN Err("Invalid phone number format. Use only digits, spaces, dashes, parentheses, and plus signs.")
    ELSE IF Len(DigitsOnly(cleaned_number)) < MinPhoneDigits
    THEN Err("Phone number must contain at least 10 digits.")
    ELSE IF \E q \in ps : q.phone_number = cleaned_number
    THEN Err("This phone number is already registered.")
    ELSE Ok(cleaned_number)

validate_phone_number(value, ps) ==
    IF value = <<>> THEN Err("Phone number is required")
    ELSE PhoneRules(Strip(value), ps)

\* The phone_number field: CharField(max_length=15) with the UniqueValidator
\* of the unique column, then validate_phone_number.
PhoneClean(v, ps) ==
    IF v = <<>> THEN Err("This field may not be blank.")
    ELSE IF Len(v) > PhoneMaxLength
    THEN Err("Ensure this field has no more than 15 characters.")
    ELSE IF \E q \in ps : q.phone_number = v
    THEN Err("profile with this phone number already exists.")
    ELSE validate_phone_number(v, ps)

PhoneField(raw, ps) == PhoneClean(Strip(raw), ps)

ROLE_CHOICES == {"student", "vendor", "admin"}

\* ProfileSerializer.validate_role
validate_role(value) ==
    IF value \notin ROLE_CHOICES
    THEN Err("Invalid role. Must be one of: student, vendor, admin")
    ELSE Ok(value)

\* role: ChoiceField over ROLE_CHOICES, optional because the column has a
\* default; the value is the set of keys validated_data carries.
RoleResult(r) == [error |-> r.error, value |-> IF r.error = "" THEN Some(r.value) ELSE Absent]

RoleField(opt) ==
    IF opt = Absent THEN [error |-> "", value |-> Absent]
    ELSE IF Get(opt) \notin ROLE_CHOICES
    THEN [error |-> "Not a valid choice.", value |-> Absent]
    ELSE RoleResult(validate_role(Get(opt)))

ValidDates == {"1990-01-01"}

\* date_of_birth: DateField(required=False, allow_null=True)
DateField(opt) ==
    IF opt = Absent THEN [error |-> "", value |-> Absent]
    ELSE IF Get(opt) \notin ValidDates
    THEN [error |-> "Date has wrong format. Use one of these formats instead: YYYY-MM-DD.",
          value |-> Absent]
    ELSE [error |-> "", value |-> opt]

(***************************************************************************)
(* The serializer the register view validates with: the field pass of      *)
(* to_internal_value, which collects one entry per failing field, and      *)
(* only when no field failed, UserSerializer.validate.                     *)
(***************************************************************************)
Fields(p, us, ps) ==
    [email |-> EmailField(p.email, us),
     username |-> UsernameField(p.username, us),
     password |-> PasswordField(p.password),
     password_confirm |-> PasswordConfirmField(p.password_confirm),
     phone_number |-> PhoneField(p.phone_number, ps),
     role |-> RoleField(p.role),
     date_of_birth |-> DateField(p.date_of_birth)]

Entry(key, result) == IF result.error = "" THEN {} ELSE {<<key, result.error>>}

FieldErrors(f) ==
    Entry("email", f.email) \cup Entry("username", f.username)
    \cup Entry("password", f.password) \cup Entry("password_confirm", f.password_confirm)
    \cup Entry("profile.phone_number", f.phone_number) \cup Entry("profile.role", f.role)
    \cup Entry("profile.date_of_birth", f.date_of_birth)

\* the attributes to_internal_value hands to validate(): read-only fields
\* (id, date_joined, is_verified) are dropped, is_active is kept
InternalValue(p, f) ==
    [email |-> f.email.value,
     username |-> f.username.value,
     password |-> f.password.value,
     password_confirm |->
        IF p.password_confirm = Absent THEN Absent ELSE Some(f.password_confirm.value),
     is_active |-> p.is_active,
     profile |-> [phone_number |-> f.phone_number.value,
                  role |-> f.role.value,
                  date_of_birth |-> f.date_of_birth.value]]

\* UserSerializer.validate
validate(data) ==
    IF data.password_confirm = Absent
    THEN {<<"password_confirm", "You must confirm your password.">>}
    ELSE IF data.password # Get(data.password_confirm)
    THEN {<<"password_confirm", "Passwords do not match.">>}
    ELSE {}

run_validation(fieldErrors, data) ==
    IF fieldErrors # {} THEN [errors |-> fieldErrors, validated_data |-> data]
    ELSE [errors |-> validate(data), validated_data |-> data]

to_internal_value(p, f) == run_validation(FieldErrors(f), InternalValue(p, f))

\* serializer.is_valid(): errors and, when there are none, validated_data
is_valid(p, us, ps) == to_internal_value(p, Fields(p, us, ps))

ErrorKeys(details) == {d[1] : d \in details}

(***************************************************************************)
(* The tables.  A row insert either returns the row or raises the          *)
(* IntegrityError of a unique column.                                      *)
(***************************************************************************)
\* UserManager.create_user up to user.save(): the row to insert
create_user(id, email, username, password, is_active) ==
    [id |-> id,
     email |-> normalize_email(email),
     username |-> username,
     password |-> make_password(password),
     is_active |-> IF is_active = Absent THEN TRUE ELSE Get(is_active),
     is_staff |-> FALSE,
     is_verified |-> FALSE]

\* unique=True of User.email and User.username
UserIntegrityError(row, us) ==
    IF \E u \in us : u.email = row.email
    THEN "UNIQUE constraint failed: accounts_user.email"
    ELSE IF \E u \in us : u.username = row.username
    THEN "UNIQUE constraint failed: accounts_user.username"
    ELSE ""

\* Profile.objects.create(user=user) without the role of profile_data
profile_create_role_dropped(user, profile_data) ==
    [user |-> user.id,
     phone_number |-> profile_data.phone_number,
     role |-> "student",
     date_of_birth |-> profile_data.date_of_birth]

\* Profile.objects.create(user=user, **profile_data): the row to insert
profile_create(user, profile_data) ==
    [user |-> user.id,
     phone_number |-> profile_data.phone_number,
     role |-> IF profile_data.role = Absent THEN "student" ELSE Get(profile_data.role),
     date_of_birth |-> profile_data.date_of_birth]

\* the Profile table without unique=True on phone_number
ProfileIntegrityError_phone_not_unique(row, ps) ==
    IF \E q \in ps : q.user = row.user
    THEN "UNIQUE constraint failed: accounts_profile.user_id"
    ELSE ""

\* the OneToOneField and unique=True of Profile.phone_number
ProfileIntegrityError(row, ps) ==
    IF \E q \in ps : q.user = row.user
    THEN "UNIQUE constraint failed: accounts_profile.user_id"
    ELSE IF \E q \in ps : q.phone_number = row.phone_number
    THEN "UNIQUE constraint failed: accounts_profile.phone_number"
    ELSE ""

(***************************************************************************)
(* Tokens: RefreshToken.for_user(user) and its access_token.               *)
(***************************************************************************)
AccessLifetime == 1
RefreshLifetime == 2

for_user(user, t) ==
    [access |-> [token_type |-> "access", user_id |-> user.id,
                 exp |-> t + AccessLifetime, signed |-> TRUE],
     refresh |-> [token_type |-> "refresh", user_id |-> user.id,
                  exp |-> t + RefreshLifetime, signed |-> TRUE]]

\* UserReadSerializer(user).data
UserRead(user, ps) ==
    [id |-> user.id, email |-> user.email, username |-> user.username,
     is_active |-> user.is_active, is_verified |-> user.is_verified,
     profile |-> {[phone_number |-> q.phone_number, role |-> q.role,
                   date_of_birth |-> q.date_of_birth] : q \in {x \in ps : x.user = user.id}}]

(***************************************************************************)
(* Responses.                                                              *)
(***************************************************************************)
Response(status, error, details, detail, message, user, tokens) ==
    [status |-> status, error |-> error, details |-> details, detail |-> detail,
     message |-> message, user |-> user, tokens |-> tokens]

NoResponse == Response(0, "", {}, "", "", {}, {})

(***************************************************************************)
(* register: the whole view run on the tables (us, ps) with the next free  *)
(* row id and the clock t.  The result is the response and the tables the  *)
(* transaction leaves behind.                                              *)
(***************************************************************************)
Outcome(response, us, ps, id) ==
    [response |-> response, users |-> us, profiles |-> ps, nextId |-> id]

RegistrationFailed(e) == Response(400, "Registration failed", {}, e, "", {}, {})

ValidationFailed(errors) == Response(400, "Validation failed", errors, "", "", {}, {})

Registered(user, ps, t) ==
    Response(201, "", {}, "", "User registered successfully",
             Some(UserRead(user, ps)), Some(for_user(user, t)))

\* leaving transaction.atomic(): commit, or rollback on IntegrityError
AtomicExit(user, profile, us, ps, id, t) ==
    IF UserIntegrityError(user, us) # ""
    THEN Outcome(RegistrationFailed(UserIntegrityError(user, us)), us, ps, id)
    ELSE IF ProfileIntegrityError(profile, ps) # ""
    THEN Outcome(RegistrationFailed(ProfileIntegrityError(profile, ps)), us, ps, id + 1)
    ELSE Outcome(Registered(user, ps \cup {profile}, t), us \cup {user}, ps \cup {profile}, id + 1)

CreateProfile(user, profile_data, us, ps, id, t) ==
    AtomicExit(user, profile_create(user, profile_data), us, ps, id, t)

CreateRows(validated, us, ps, id, t) ==
    IF validated.email = <<>>
    THEN Outcome(RegistrationFailed("Email is required"), us, ps, id)
    ELSE CreateProfile(create_user(id, validated.email, validated.username,
                                   validated.password, validated.is_active),
                       validated.profile, us, ps, id, t)

RegisterValidated(serializer, us, ps, id, t) ==
    IF serializer.errors # {}
    THEN Outcome(ValidationFailed(serializer.errors), us, ps, id)
    ELSE CreateRows(serializer.validated_data, us, ps, id, t)

register(p, us, ps, id, t) == RegisterValidated(is_valid(p, us, ps), us, ps, id, t)

(***************************************************************************)
(* login.                                                                  *)
(***************************************************************************)
\* django.contrib.auth.authenticate with the ModelBackend: the user whose
\* USERNAME_FIELD (email) equals username, when the password checks and
\* user_can_authenticate (is_active) holds; None otherwise
authenticate(username, password, us) ==
    {u \in us : /\ u.email = username
                /\ check_password(password, u.password)
                /\ u.is_active}

InvalidCredentials == "Invalid email or password."
Deactivated == "Your account has been deactivated. Please contact support."

\* the email and password fields of LoginSerializer
LoginEmailField(e) ==
    IF e = <<>> THEN Err("This field may not be blank.")
    ELSE IF ~EmailFormat(e) THEN Err("Enter a valid email address.")
    ELSE Ok(e)

LoginPasswordField(v) ==
    IF v = <<>> THEN Err("This field may not be blank.") ELSE Ok(v)

LoginFieldErrors(c) ==
    Entry("email", LoginEmailField(Strip(c.email)))
    \cup Entry("password", LoginPasswordField(Strip(c.password)))

UserErrors(user) ==
    IF user = {}
    THEN {<<"non_field_errors", InvalidCredentials>>}
    ELSE IF ~(Get(user)).is_active
    THEN {<<"non_field_errors", Deactivated>>}
    ELSE {}

Authenticated(email, password, us) ==
    IF email = <<>> \/ password = <<>>
    THEN {<<"non_field_errors", "Both email and password are required.">>}
    ELSE UserErrors(authenticate(email, password, us))

\* LoginSerializer.validate with a message of its own for an unknown email
LoginValidate_unknown_email_reported(data, us) ==
    IF \A u \in us : u.email # Strip(Lower(data.email))
    THEN {<<"non_field_errors", "No account with this email.">>}
    ELSE Authenticated(Strip(Lower(data.email)), data.password, us)

\* LoginSerializer.validate
LoginValidate(data, us) == Authenticated(Strip(Lower(data.email)), data.password, us)

AuthenticationFailed(details) == Response(400, "Authentication failed", details, "", "", {}, {})

\* the view once the serializer is valid
LoggedIn(user, ps, t) ==
    IF UserErrors(user) # {} THEN AuthenticationFailed(UserErrors(user))
    ELSE Response(200, "", {}, "", "Login successful",
                  Some(UserRead(Get(user), ps)), Some(for_user(Get(user), t)))

LoginErrors(fieldErrors, data, us) ==
    IF fieldErrors # {} THEN fieldErrors ELSE LoginValidate(data, us)

LoginChecked(errors, data, us, ps, t) ==
    IF errors # {} THEN AuthenticationFailed(errors)
    ELSE LoggedIn(authenticate(data.email, data.password, us), ps, t)

LoginData(fieldErrors, data, us, ps, t) ==
    LoginChecked(LoginErrors(fieldErrors, data, us), data, us, ps, t)

login(c, us, ps, t) ==
    LoginData(LoginFieldErrors(c), [email |-> Strip(c.email), password |-> Strip(c.password)],
              us, ps, t)

(***************************************************************************)
(* me, behind IsAuthenticated and the bearer-token authentication.         *)
(***************************************************************************)
\* TokenService.verify: the account id, or the TokenError
verify(token, expected_type, t) ==
    IF ~token.signed THEN [error |-> "Malformed", user_id |-> 0]
    ELSE IF token.exp <= t THEN [error |-> "Expired", user_id |-> 0]
    ELSE IF token.token_type # expected_type THEN [error |-> "WrongType", user_id |-> 0]
    ELSE [error |-> "", user_id |-> token.user_id]

\* SessionGate.authenticate_request: request.user, {} when unauthenticated
get_user(v, us) ==
    IF v.error # "" THEN {} ELSE {u \in us : u.id = v.user_id /\ u.is_active}

authenticate_request(bearer, us, t) ==
    IF bearer = Absent THEN {} ELSE get_user(verify(Get(bearer), "access", t), us)

Unauthenticated == Response(401, "", {}, "Authentication credentials were not provided.", "", {}, {})

\* me without permission_classes([IsAuthenticated]): the serializer fails on
\* the anonymous user and the except branch answers 500
UserData(user, ps) ==
    IF user = {}
    THEN Response(500, "Failed to retrieve user data", {}, "AttributeError", "", {}, {})
    ELSE Response(200, "", {}, "", "", Some(UserRead(Get(user), ps)), {})

me_without_IsAuthenticated(bearer, us, ps, t) ==
    UserData(authenticate_request(bearer, us, t), ps)

\* permission_classes([IsAuthenticated]), then the view
Permitted(user, ps) ==
    IF user = {} THEN Unauthenticated
    ELSE Response(200, "", {}, "", "", Some(UserRead(Get(user), ps)), {})

me(bearer, us, ps, t) == Permitted(authenticate_request(bearer, us, t), ps)

(***************************************************************************)
(* Request inputs.                                                         *)
(***************************************************************************)
PayloadA ==
    [email |-> EmA, username |-> UnA, password |-> PwA, password_confirm |-> Some(PwA),
     is_active |-> Absent, is_verified |-> Absent,
     phone_number |-> PhA, role |-> Some("vendor"), date_of_birth |-> Absent]

PayloadB ==
    [email |-> EmB, username |-> UnB, password |-> PwB, password_confirm |-> Some(PwB),
     is_active |-> Absent, is_verified |-> Absent,
     phone_number |-> PhB, role |-> Absent, date_of_birth |-> Some("1990-01-01")]

\* PayloadA and PayloadB with one field changed, and a few with several
Payloads ==
    {PayloadA, PayloadB}
    \cup {[PayloadA EXCEPT !.email = e] : e \in {EmAUpper, EmBad, <<>>}}
    \cup {[PayloadA EXCEPT !.username = u] : u \in {UnAUpper, UnShort, UnBadChar}}
    \cup {[PayloadA EXCEPT !.password = PwShort, !.password_confirm = Some(PwShort)]}
    \cup {[PayloadA EXCEPT !.password_confirm = c] : c \in {Absent, Some(PwB)}}
    \cup {[PayloadA EXCEPT !.is_active = a] : a \in {Some(TRUE), Some(FALSE)}}
    \cup {[PayloadA EXCEPT !.is_verified = Some(TRUE)]}
    \cup {[PayloadA EXCEPT !.phone_number = n] :
            n \in {PhADash, PhAPad, PhShort, PhBadChar, PhLong}}
    \cup {[PayloadA EXCEPT !.role = r] : r \in {Absent, Some("hacker")}}
    \cup {[PayloadA EXCEPT !.date_of_birth = d] : d \in {Some("1990-01-01"), Some("1990-13-01")}}
    \cup {[PayloadB EXCEPT !.email = EmAUpper],
          [PayloadB EXCEPT !.username = UnA],
          [PayloadB EXCEPT !.phone_number = PhAPad],
          [PayloadB EXCEPT !.phone_number = PhADash],
          [PayloadB EXCEPT !.is_active = Some(FALSE), !.is_verified = Some(TRUE)]}
    \cup {[PayloadB EXCEPT !.email = EmA, !.password_confirm = Some(PwA)],
          [PayloadB EXCEPT !.username = UnShort, !.password_confirm = Absent],
          [PayloadB EXCEPT !.email = EmA, !.username = UnShort,
                           !.password_confirm = Some(PwA), !.phone_number = PhShort]}

\* the payloads the views are exercised with next to login and me
AuthPayloads ==
    {PayloadA, PayloadB, [PayloadB EXCEPT !.is_active = Some(FALSE), !.is_verified = Some(TRUE)]}

Credentials ==
    [email : {EmA, EmAUpper, EmB, EmBad}, password : {PwA, PwB, <<>>}]

\* bearer tokens a client may present: none, or any token of the format,
\* signed by the server or not
Tokens ==
    [token_type : {"access", "refresh"}, user_id : 1..MaxId,
     exp : 1..(MaxTime + RefreshLifetime), signed : BOOLEAN]

Bearers == {Absent} \cup {Some(k) : k \in Tokens}

(***************************************************************************)
(* State.                                                                  *)
(*   users, profiles  the committed rows of the two tables                 *)
(*   nextId           the next primary key of the user table               *)
(*   now              the clock                                            *)
(*   out              the last request served by a view run on its own     *)
(*   req              the register requests running interleaved, and the   *)
(*                    exception a call of UserSerializer.create raised     *)
(***************************************************************************)
NoOut == [op |-> "", payload |-> {}, credentials |-> {}, bearer |-> {}, response |-> NoResponse]

IdleRequest ==
    [pc |-> "idle", payload |-> {}, validated |-> {}, user |-> {}, profile |-> {},
     response |-> NoResponse, raised |-> ""]

Init ==
    /\ users = {}
    /\ profiles = {}
    /\ nextId = 1
    /\ now = 0
    /\ out = NoOut
    /\ req = [r \in 1..NReq |-> IdleRequest]

(***************************************************************************)
(* The views, each request served without another one in between.          *)
(***************************************************************************)
Served(p, o) ==
    /\ users' = o.users
    /\ profiles' = o.profiles
    /\ nextId' = o.nextId
    /\ out' = [NoOut EXCEPT !.op = "register", !.payload = Some(p), !.response = o.response]

Register(p) ==
    /\ nextId <= MaxId
    /\ Served(p, register(p, users, profiles, nextId, now))
    /\ UNCHANGED <<now, req>>

Login(c) ==
    /\ out' = [NoOut EXCEPT !.op = "login", !.credentials = Some(c),
                            !.response = login(c, users, profiles, now)]
    /\ UNCHANGED <<users, profiles, nextId, now, req>>

Me(bearer) ==
    /\ out' = [NoOut EXCEPT !.op = "me", !.bearer = Some(bearer),
                            !.response = me(bearer, users, profiles, now)]
    /\ UNCHANGED <<users, profiles, nextId, now, req>>

\* an administrator clears is_active
Deactivate(id) ==
    /\ \E u \in users : u.id = id /\ u.is_active
    /\ users' = {IF u.id = id THEN [u EXCEPT !.is_active = FALSE] ELSE u : u \in users}
    /\ UNCHANGED <<profiles, nextId, now, out, req>>

\* an administrator deletes the user; on_delete=CASCADE removes the profile
DeleteUser(id) ==
    /\ \E u \in users : u.id = id
    /\ users' = {u \in users : u.id # id}
    /\ profiles' = {q \in profiles : q.user # id}
    /\ UNCHANGED <<nextId, now, out, req>>

Tick ==
    /\ now < MaxTime
    /\ now' = now + 1
    /\ UNCHANGED <<users, profiles, nextId, out, req>>

Next ==
    \/ \E p \in AuthPayloads : Register(p)
    \/ \E c \in Credentials : Login(c)
    \/ \E b \in Bearers : Me(b)
    \/ \E id \in 1..MaxId : Deactivate(id)
    \/ \E id \in 1..MaxId : DeleteUser(id)
    \/ Tick

Spec == Init /\ [][Next]_vars

NextRegister == \E p \in Payloads : Register(p)

SpecRegister == Init /\ [][NextRegister]_vars

(***************************************************************************)
(* register, interleaved: each request r is a worker of its own that runs  *)
(* the view step by step against the shared tables.  Rows written inside   *)
(* transaction.atomic() stay private to the request until the block is     *)
(* left; an insert that collides with a private row of another request     *)
(* waits for that request to commit or roll back.                          *)
(***************************************************************************)
ConcurrentPayloads ==
    {PayloadA, PayloadB,
     [PayloadB EXCEPT !.phone_number = PhAPad],
     [PayloadB EXCEPT !.email = EmAUpper],
     [PayloadB EXCEPT !.username = UnA],
     [PayloadA EXCEPT !.password_confirm = Absent]}

Requests == 1..NReq

InTransaction(r) == req[r].pc \in {"user", "profile"}

\* rows other requests hold uncommitted
PendingUsers(r) == UNION {req[o].user : o \in {x \in Requests \ {r} : InTransaction(x)}}
PendingProfiles(r) == UNION {req[o].profile : o \in {x \in Requests \ {r} : req[x].pc = "profile"}}

\* the insert without transaction.atomic(): committed at once
VisibleAfterInsert_autocommit(us, row) == us \cup {row}

\* the user table other requests see once a row is inserted inside
\* transaction.atomic(): unchanged until the block is left
VisibleAfterInsert(us, row) == us

Finish(r, response) ==
    req' = [req EXCEPT ![r].pc = "done", ![r].response = response]

\* serializer = RegisterSerializer(data=request.data); serializer.is_valid()
Validated(r, p, serializer) ==
    IF serializer.errors # {}
    THEN req' = [req EXCEPT ![r].pc = "done", ![r].payload = Some(p),
                            ![r].response = ValidationFailed(serializer.errors)]
    ELSE req' = [req EXCEPT ![r].pc = "valid", ![r].payload = Some(p),
                            ![r].validated = Some(serializer.validated_data)]

RegValidate(r, p) ==
    /\ req[r].pc = "idle"
    \* requests are numbered in the order they arrive
    /\ IF r = 1 THEN TRUE ELSE req[r - 1].pc # "idle"
    /\ Validated(r, p, is_valid(p, users, profiles))
    /\ UNCHANGED <<users, profiles, nextId, now, out>>

\* user = User.objects.create_user(**validated)
InsertUser(r, validated, user) ==
    /\ UserIntegrityError(user, PendingUsers(r)) = ""
    /\ IF validated.email = <<>>
       THEN /\ Finish(r, RegistrationFailed("Email is required"))
            /\ UNCHANGED <<users, nextId>>
       ELSE IF UserIntegrityError(user, users) # ""
       THEN /\ Finish(r, RegistrationFailed(UserIntegrityError(user, users)))
            /\ UNCHANGED <<users, nextId>>
       ELSE /\ req' = [req EXCEPT ![r].pc = "user", ![r].user = Some(user)]
            /\ users' = VisibleAfterInsert(users, user)
            /\ nextId' = nextId + 1

CreateUser(r, validated) ==
    InsertUser(r, validated, create_user(nextId, validated.email, validated.username,
                                         validated.password, validated.is_active))

RegCreateUser(r) ==
    /\ req[r].pc = "valid"
    /\ CreateUser(r, Get(req[r].validated))
    /\ UNCHANGED <<profiles, now, out>>

\* Profile.objects.create(user=user, **profile_data)
InsertProfile(r, user, profile) ==
    /\ ProfileIntegrityError(profile, PendingProfiles(r)) = ""
    /\ IF ProfileIntegrityError(profile, profiles) # ""
       THEN \* the exception leaves the atomic block: rollback
            /\ Finish(r, RegistrationFailed(ProfileIntegrityError(profile, profiles)))
            /\ users' = users \ {user}
       ELSE /\ req' = [req EXCEPT ![r].pc = "profile", ![r].profile = Some(profile)]
            /\ users' = users

RegCreateProfile(r) ==
    /\ req[r].pc = "user"
    /\ InsertProfile(r, Get(req[r].user),
                     profile_create(Get(req[r].user), Get(req[r].validated).profile))
    /\ UNCHANGED <<profiles, nextId, now, out>>

\* refresh = RefreshToken.for_user(user); return Response(..., 201): the
\* atomic block is left and both rows are committed
Commit(r, user, profile) ==
    /\ users' = users \cup {user}
    /\ profiles' = profiles \cup {profile}
    /\ Finish(r, Registered(user, profiles \cup {profile}, now))

RegReturn(r) ==
    /\ req[r].pc = "profile"
    /\ Commit(r, Get(req[r].user), Get(req[r].profile))
    /\ UNCHANGED <<nextId, now, out>>

StorageFailure == "OperationalError"

\* any other exception raised inside the atomic block once the user row is
\* written: rollback, then the except branch of the view
RegRaise(r) ==
    /\ InTransaction(r)
    /\ users' = users \ req[r].user
    /\ Finish(r, RegistrationFailed(StorageFailure))
    /\ UNCHANGED <<profiles, nextId, now, out>>

NextConcurrent ==
    \/ \E r \in Requests, p \in ConcurrentPayloads : RegValidate(r, p)
    \/ \E r \in Requests : RegCreateUser(r)
    \/ \E r \in Requests : RegCreateProfile(r)
    \/ \E r \in Requests : RegReturn(r)
    \/ \E r \in Requests : RegRaise(r)

SpecConcurrent == Init /\ [][NextConcurrent]_vars

(***************************************************************************)
(* Properties.                                                             *)
(***************************************************************************)
\* the values register stores for a payload
NormalEmail(p) == Strip(Lower(p.email))
NormalUsername(p) == Strip(p.username)
NormalPhone(p) == Strip(p.phone_number)
RoleOf(p) == IF p.role = Absent THEN "student" ELSE Get(p.role)

\* the payload passes every field rule that does not look at the tables
FieldRulesOK(p) == is_valid(p, {}, {}).errors = {}

EmailInStore(p) == \E u \in users : u.email = NormalEmail(p)
UsernameInStore(p) == \E u \in users : u.username = NormalUsername(p)
PhoneInStore(p) == \E q \in profiles : q.phone_number = NormalPhone(p)

\* the rows of the account a payload registers
AccountOf(p, u, q) ==
    /\ u.email = NormalEmail(p)
    /\ u.username = NormalUsername(p)
    /\ q.user = u.id
    /\ q.phone_number = NormalPhone(p)
    /\ q.role = RoleOf(p)
    /\ q.date_of_birth = p.date_of_birth

\* C1: a payload that passes all field rules and whose email, username and
\* phone number are not in the store is registered: 201 with an access and
\* a refresh token, exactly one new Account and one new Profile owned by
\* it, carrying the normalized submitted values; the same payload
\* submitted again right after is refused and adds nothing.
C1_RegisterSucceedsOnce ==
    [][\A p \in out'.payload :
         (Register(p) /\ FieldRulesOK(p)
            /\ ~EmailInStore(p) /\ ~UsernameInStore(p) /\ ~PhoneInStore(p))
         => /\ out'.response.status = 201
            /\ \E k \in out'.response.tokens :
                  k.access.token_type = "access" /\ k.refresh.token_type = "refresh"
            /\ \E u \in users' \ users, q \in profiles' \ profiles :
                  /\ users' = users \cup {u}
                  /\ profiles' = profiles \cup {q}
                  /\ AccountOf(p, u, q)
            /\ LET again == register(p, users', profiles', nextId', now')
               IN  /\ again.response.status = 400
                   /\ again.users = users'
                   /\ again.profiles = profiles']_vars

C1_Witness ==
    /\ out.op = "register"
    /\ out.response.status = 201
    /\ \E p \in out.payload :
          /\ p.email = EmAUpper
          /\ \E u \in users, q \in profiles : AccountOf(p, u, q) /\ u.email = EmA

UniquenessMessages ==
    {"user with this email already exists.",
     "An account with this email already exists.",
     "user with this username already exists.",
     "This username is already taken.",
     "profile with this phone number already exists.",
     "This phone number is already registered."}

\* the fields of an error map that report a value as taken
TakenKeys(details) == {d[1] : d \in {x \in details : x[2] \in UniquenessMessages}}

\* the fields of a payload whose value a row of the store holds
ReusedKeys(p) ==
    (IF EmailInStore(p) THEN {"email"} ELSE {})
    \cup (IF UsernameInStore(p) THEN {"username"} ELSE {})
    \cup (IF PhoneInStore(p) THEN {"profile.phone_number"} ELSE {})

\* C2: a payload that reuses an email, a username or a phone number of the
\* store is refused with a field error under exactly that field (email,
\* username, profile.phone_number), and the Account and Profile rows are
\* the same after the call as before it.
C2_ReuseIsFieldError ==
    [][\A p \in out'.payload :
         (Register(p) /\ ReusedKeys(p) # {})
         => /\ out'.response.status = 400
            /\ out'.response.error = "Validation failed"
            /\ TakenKeys(out'.response.details) = ReusedKeys(p)
            /\ users' = users
            /\ profiles' = profiles]_vars

C2_Witness ==
    /\ out.op = "register"
    /\ out.payload = Some([PayloadB EXCEPT !.phone_number = PhAPad])
    /\ out.response.status = 400
    /\ ErrorKeys(out.response.details) = {"profile.phone_number"}
    /\ Cardinality(users) = 1
    /\ Cardinality(profiles) = 1

\* password_confirm is absent or differs from password
ConfirmMissingOrDifferent(p) ==
    \/ p.password_confirm = Absent
    \/ \E c \in p.password_confirm : c # p.password

\* C9: a payload whose password_confirm is absent or differs from password
\* is refused with 400 and a password_confirm entry in the error details,
\* whatever its other fields contain, and no row is created.
C9_ConfirmAlwaysReported ==
    [][\A p \in out'.payload :
         (Register(p) /\ ConfirmMissingOrDifferent(p))
         => /\ out'.response.status = 400
            /\ "password_confirm" \in ErrorKeys(out'.response.details)
            /\ users' = users
            /\ profiles' = profiles]_vars

\* C10: every account register creates starts with is_verified = FALSE and
\* is_active = TRUE, also when the payload carries is_active or is_verified.
C10_NewAccountFlags ==
    [][\A p \in out'.payload :
         (Register(p) /\ out'.response.status = 201)
         => \A u \in users' \ users : ~u.is_verified /\ u.is_active]_vars

InvalidCredentialsResponse ==
    AuthenticationFailed({<<"non_field_errors", InvalidCredentials>>})

DeactivatedResponse ==
    AuthenticationFailed({<<"non_field_errors", Deactivated>>})

\* the credentials are well formed: an email address and a password
WellFormed(c) == LoginFieldErrors(c) = {}

\* the account the email of the credentials belongs to, if any
AccountsOf(c) == {u \in users : u.email = Strip(Lower(c.email))}

WrongPassword(c) ==
    \E u \in AccountsOf(c) : ~check_password(Strip(c.password), u.password)

\* C5: login with a registered email and a wrong password and login with
\* an email that has no account, the same password submitted, produce the
\* same response (status, error and details): the invalid-credentials one.
C5_LoginDoesNotRevealEmail ==
    \A c1 \in Credentials, c2 \in Credentials :
        (/\ WellFormed(c1) /\ WellFormed(c2)
         /\ c1.password = c2.password
         /\ WrongPassword(c1)
         /\ AccountsOf(c2) = {})
        => /\ login(c1, users, profiles, now) = login(c2, users, profiles, now)
           /\ login(c1, users, profiles, now) = InvalidCredentialsResponse

C5_Witness ==
    /\ out.op = "login"
    /\ \E c \in out.credentials : WellFormed(c) /\ WrongPassword(c)
    /\ out.response = InvalidCredentialsResponse
    /\ \E c2 \in Credentials : WellFormed(c2) /\ AccountsOf(c2) = {}

\* C6: login with the email of an account whose is_active is false and
\* with its password returns the account-deactivated error, not the
\* invalid-credentials one, and no tokens.
C6_DeactivatedIsReported ==
    [][\A c \in out'.credentials :
         (/\ Login(c)
          /\ \E u \in users : /\ u.email = c.email
                              /\ check_password(c.password, u.password)
                              /\ ~u.is_active)
         => /\ out'.response = DeactivatedResponse
            /\ out'.response # InvalidCredentialsResponse
            /\ out'.response.tokens = {}]_vars

\* C7: once register has created an account, login with its email and the
\* registered password returns 200 and a token pair of that account: the
\* access token verifies as an access token to the account's id, and
\* fails with WrongType when a refresh token is expected, as does the
\* refresh token where an access token is expected.
C7_LoginAfterRegister ==
    [][\A p \in out'.payload :
         (Register(p) /\ out'.response.status = 201)
         => \A u \in users' \ users :
              LET r == login([email |-> u.email, password |-> p.password],
                             users', profiles', now')
              IN  /\ r.status = 200
                  /\ r.tokens # {}
                  /\ \A k \in r.tokens :
                       /\ verify(k.access, "access", now') = [error |-> "", user_id |-> u.id]
                       /\ verify(k.access, "refresh", now').error = "WrongType"
                       /\ verify(k.refresh, "access", now').error = "WrongType"]_vars

\* the bearer authenticates: a signed, unexpired access token of an
\* account that exists and is active
ValidBearer(b) ==
    \E k \in b : /\ k.signed
                 /\ k.exp > now
                 /\ k.token_type = "access"
                 /\ \E u \in users : u.id = k.user_id /\ u.is_active

\* C8: GET /me returns a user only for a validly signed, unexpired access
\* token whose account exists and is active at the time of the request,
\* and then the user the token is bound to; with the token missing,
\* malformed, expired, of the refresh type, or bound to an account that
\* was deleted or deactivated, the answer is 401 without a user.
C8_MeOnlyForValidToken ==
    [][\A b \in out'.bearer :
         Me(b) =>
           IF ValidBearer(b)
           THEN /\ out'.response.status = 200
                /\ \E k \in b, v \in out'.response.user, u \in users :
                      v.id = k.user_id /\ u.id = k.user_id /\ v.email = u.email
           ELSE /\ out'.response.status = 401
                /\ out'.response.user = {}]_vars

\* a signed, unexpired access token of a deactivated account is refused
C8_Witness ==
    /\ out.op = "me"
    /\ out.response.status = 401
    /\ \E b \in out.bearer : \E k \in b :
          /\ k.signed /\ k.exp > now /\ k.token_type = "access"
          /\ \E u \in users : u.id = k.user_id /\ ~u.is_active /\ u.email = EmA

(***************************************************************************)
(* Properties of the interleaved register requests.                        *)
(***************************************************************************)
Started == {r \in Requests : req[r].pc # "idle"}
PayloadOf(r) == Get(req[r].payload)

\* the value a payload carries in one of the three unique columns
ColumnValue(p, column) ==
    CASE column = "email" -> NormalEmail(p)
      [] column = "username" -> NormalUsername(p)
      [] OTHER -> NormalPhone(p)

UniqueColumns == {"email", "username", "phone_number"}

Collide(p1, p2) == \E column \in UniqueColumns : ColumnValue(p1, column) = ColumnValue(p2, column)

\* the rows that hold the value of request r in a column
RowsHolding(r, column) ==
    CASE column = "email" -> {u \in users : u.email = NormalEmail(PayloadOf(r))}
      [] column = "username" -> {u \in users : u.username = NormalUsername(PayloadOf(r))}
      [] OTHER -> {q \in profiles : q.phone_number = NormalPhone(PayloadOf(r))}

IntegrityMessages ==
    {"UNIQUE constraint failed: accounts_user.email",
     "UNIQUE constraint failed: accounts_user.username",
     "UNIQUE constraint failed: accounts_profile.phone_number"}

\* the request was refused because a value it carries is taken: by the
\* serializer, or by a unique column at insert
ConflictError(response) ==
    /\ response.status = 400
    /\ \/ response.error = "Validation failed" /\ TakenKeys(response.details) # {}
       \/ response.error = "Registration failed" /\ response.detail \in IntegrityMessages

\* the requests that carry the value of request r in a column
Group(r, column) ==
    {o \in Started : ColumnValue(PayloadOf(o), column) = ColumnValue(PayloadOf(r), column)}

\* C3: when two or more register requests carry the same phone number (or
\* the same email, or the same username), their payloads are otherwise
\* acceptable, no request outside the group shares a value with them and
\* no storage failure hits them, then however their checks and inserts
\* interleave, once all are answered exactly one of them succeeded, every
\* other one got a conflict error, and exactly one row holds the value.
C3_OneWinnerPerValue ==
    \A r \in Requests, column \in UniqueColumns :
        (/\ \A o \in Requests : req[o].pc = "done"
         /\ Cardinality(Group(r, column)) >= 2
         /\ \A g \in Group(r, column) :
               /\ FieldRulesOK(PayloadOf(g))
               /\ req[g].response.detail # StorageFailure
               /\ \A o \in Started \ Group(r, column) : ~Collide(PayloadOf(g), PayloadOf(o)))
        => /\ Cardinality({g \in Group(r, column) : req[g].response.status = 201}) = 1
           /\ \A g \in Group(r, column) :
                 req[g].response.status # 201 => ConflictError(req[g].response)
           /\ Cardinality(RowsHolding(r, column)) = 1

\* two requests with the same phone number and nothing else in common both
\* passed validation; the unique column refused the second insert
C3_Witness ==
    /\ \A o \in Requests : req[o].pc = "done"
    /\ \E r1 \in Requests, r2 \in Requests :
          /\ PayloadOf(r1) = PayloadA
          /\ PayloadOf(r2) = [PayloadB EXCEPT !.phone_number = PhAPad]
          /\ Group(r1, "phone_number") = {r1, r2}
          /\ {req[r1].response.status, req[r2].response.status} = {201, 400}
          /\ \E l \in {r1, r2} :
                req[l].response.detail = "UNIQUE constraint failed: accounts_profile.phone_number"
          /\ Cardinality(RowsHolding(r1, "phone_number")) = 1

\* C4: in every state another request can observe, every Account has
\* exactly one Profile and every Profile has its Account; a request that
\* was refused, also after its Account row was written, has left no row.
C4_AccountProfileAtomic ==
    /\ \A u \in users : Cardinality({q \in profiles : q.user = u.id}) = 1
    /\ \A q \in profiles : Cardinality({u \in users : u.id = q.user}) = 1
    /\ \A r \in Requests :
          (req[r].pc = "done" /\ req[r].response.status # 201)
          => \A w \in req[r].user :
                /\ \A u \in users : u.id # w.id
                /\ \A q \in profiles : q.user # w.id

\* a request was refused at the Profile insert, after its Account row was
\* written, while another one committed its pair
C4_Witness ==
    \E r1 \in Requests, r2 \in Requests :
        /\ req[r1].pc = "done"
        /\ req[r1].response.error = "Registration failed"
        /\ req[r1].user # {}
        /\ req[r2].pc = "done"
        /\ req[r2].response.status = 201
        /\ Cardinality(users) = 1
        /\ Cardinality(profiles) = 1

(***************************************************************************)
(* Properties of the error map, the login email and the phone number.      *)
(***************************************************************************)
\* the fields of a payload that break a rule on the tables (us, ps): the
\* fields whose own check fails, and password_confirm when it is absent or
\* differs from password
ViolatedKeys(p, us, ps) ==
    ErrorKeys(FieldErrors(Fields(p, us, ps)))
    \cup (IF ConfirmMissingOrDifferent(p) THEN {"password_confirm"} ELSE {})

\* C11: a register request that fails reports every field of the payload
\* that breaks a rule, the nested profile fields included, in the one
\* error map of the response: the keys of the map are all the violated
\* fields, not only the first ones found.
C11_AllFieldErrorsReported ==
    [][\A p \in out'.payload :
         (Register(p) /\ ViolatedKeys(p, users, profiles) # {})
         => /\ out'.response.status = 400
            /\ ViolatedKeys(p, users, profiles) \subseteq ErrorKeys(out'.response.details)]_vars

\* the active accounts a login with these credentials is meant for: the
\* email, trimmed and lower-cased, is the account's and the password checks
AccountsMeant(c) ==
    {u \in AccountsOf(c) : check_password(Strip(c.password), u.password) /\ u.is_active}

\* C12: login with the email of an active account in any upper/lower-case
\* spelling and with the account's password succeeds: 200 with the user
\* and a token pair bound to that account.
C12_LoginNormalizesEmail ==
    [][\A c \in out'.credentials :
         (Login(c) /\ AccountsMeant(c) # {})
         => /\ out'.response.status = 200
            /\ \E k \in out'.response.tokens, u \in AccountsMeant(c) :
                  k.access.user_id = u.id /\ k.refresh.user_id = u.id]_vars

\* two phone numbers carry the same digit sequence
SameDigits(a, b) == DigitsOnly(a) = DigitsOnly(b)

\* the phone number passes the format rules of the field on an empty table
PhoneRulesOK(p) == PhoneField(p.phone_number, {}).error = ""

\* C14: register stores and compares phone numbers in a canonical form: a
\* well-formed phone number with the digit sequence of a stored one,
\* whatever its spaces, dashes, parentheses and plus signs, is refused as
\* a duplicate phone number and adds no row, and no two Profiles ever hold
\* the same digit sequence.
C14_PhoneIsCanonical ==
    [][\A p \in out'.payload :
         Register(p)
         => /\ (PhoneRulesOK(p)
                /\ \E q \in profiles : SameDigits(q.phone_number, p.phone_number))
               => /\ out'.response.status = 400
                  /\ "profile.phone_number" \in TakenKeys(out'.response.details)
                  /\ users' = users
                  /\ profiles' = profiles
            /\ \A q1 \in profiles', q2 \in profiles' :
                  SameDigits(q1.phone_number, q2.phone_number) => q1 = q2]_vars

(***************************************************************************)
(* The error a lost race surfaces as.                                      *)
(***************************************************************************)
\* the request passed validation and a unique column refused its insert
RefusedAtInsert(r) ==
    /\ req[r].pc = "done"
    /\ req[r].validated # {}
    /\ req[r].response.detail \in IntegrityMessages

\* what a client can tell responses apart by: the status and the error
\* code, not the text of the exception
Kind(response) == <<response.status, response.error>>

\* C13: a request that passed validation and lost the race at the insert
\* is answered with an error of a kind of its own, different from the one
\* of a field-validation failure and from the one of any other storage
\* failure, and none of its rows is in the tables.
C13_ConflictIsDistinguishable ==
    \A r \in Requests :
        RefusedAtInsert(r)
        => /\ Kind(req[r].response) # Kind(ValidationFailed({}))
           /\ Kind(req[r].response) # Kind(RegistrationFailed(StorageFailure))
           /\ \A o \in Requests :
                 (req[o].pc = "done" /\ ~RefusedAtInsert(o))
                 => Kind(req[o].response) # Kind(req[r].response)
           /\ \A w \in req[r].user :
                 /\ \A u \in users : u.id # w.id
                 /\ \A q \in profiles : q.user # w.id

(***************************************************************************)
(* UserSerializer.create, called with the validated data of a serializer   *)
(* that passed is_valid().  It runs outside transaction.atomic(): each     *)
(* insert is committed at once, and other callers may run between the      *)
(* validation, the two inserts and the clean-up of the except branch.      *)
(***************************************************************************)
Raise(r, exception) ==
    req' = [req EXCEPT ![r].pc = "done", ![r].raised = exception]

\* except Exception as e: if user: ... with user never assigned, because
\* create_user itself raised: the test of the unbound local raises
ExceptUserUnbound(r) ==
    /\ Raise(r, "UnboundLocalError")
    /\ UNCHANGED <<users, profiles, nextId>>

\* except Exception as e: if user: user.delete(), the CASCADE of
\* Profile.user included, then raise serializers.ValidationError
ExceptUserBound(r, user) ==
    /\ users' = users \ {user}
    /\ profiles' = {q \in profiles : q.user # user.id}
    /\ Raise(r, "ValidationError")
    /\ UNCHANGED nextId

\* user = User.objects.create_user(**validated_data)
SaveUser(r, validated, user) ==
    IF validated.email = <<>> \/ UserIntegrityError(user, users) # ""
    THEN ExceptUserUnbound(r)
    ELSE /\ users' = users \cup {user}
         /\ nextId' = nextId + 1
         /\ req' = [req EXCEPT ![r].pc = "saved", ![r].user = Some(user)]
         /\ UNCHANGED profiles

SaveValidated(r, validated) ==
    SaveUser(r, validated, create_user(nextId, validated.email, validated.username,
                                       validated.password, validated.is_active))

CreateSaveUser(r) ==
    /\ req[r].pc = "valid"
    /\ SaveValidated(r, Get(req[r].validated))
    /\ UNCHANGED <<now, out>>

\* Profile.objects.create(user=user, **profile_data); return user
SaveProfile(r, user, profile) ==
    IF ProfileIntegrityError(profile, profiles) # ""
    THEN ExceptUserBound(r, user)
    ELSE /\ profiles' = profiles \cup {profile}
         /\ req' = [req EXCEPT ![r].pc = "done", ![r].profile = Some(profile)]
         /\ UNCHANGED <<users, nextId>>

CreateSaveProfile(r) ==
    /\ req[r].pc = "saved"
    /\ SaveProfile(r, Get(req[r].user),
                   profile_create(Get(req[r].user), Get(req[r].validated).profile))
    /\ UNCHANGED <<now, out>>

\* an insert raises another exception (the database is not reachable, ...)
CreateRaise(r) ==
    /\ req[r].pc \in {"valid", "saved"}
    /\ IF req[r].pc = "valid"
       THEN ExceptUserUnbound(r)
       ELSE ExceptUserBound(r, Get(req[r].user))
    /\ UNCHANGED <<now, out>>

NextCreate ==
    \/ \E r \in Requests, p \in ConcurrentPayloads : RegValidate(r, p)
    \/ \E r \in Requests : CreateSaveUser(r)
    \/ \E r \in Requests : CreateSaveProfile(r)
    \/ \E r \in Requests : CreateRaise(r)

SpecCreate == Init /\ [][NextCreate]_vars

\* the call of create for request r has ended
Created(r) == req[r].pc = "done" /\ req[r].validated # {}

\* no row of the tables belongs to the call: neither the user it saved nor
\* a profile of that user
NoRowOf(r) ==
    /\ \A w \in req[r].user :
          /\ \A u \in users : u.id # w.id
          /\ \A q \in profiles : q.user # w.id

\* C15: a call of UserSerializer.create ends in one of two ways: it
\* returns a User that is in the table together with its Profile, or it
\* raises serializers.ValidationError and no User and no Profile of the
\* call is in the tables; this whether the User insert fails, before any
\* user exists, or the Profile insert fails after the User was saved.
C15_CreateAllOrNothing ==
    \A r \in Requests :
        Created(r)
        => \/ /\ req[r].raised = ""
              /\ \E u \in req[r].user :
                    /\ u \in users
                    /\ Cardinality({q \in profiles : q.user = u.id}) = 1
           \/ /\ req[r].raised = "ValidationError"
              /\ NoRowOf(r)

====
